---- MODULE Spec2Model ----
(***************************************************************************)
(* Retirement corpus estimator: the projection engine                      *)
(* (calculateRetirementMetrics, src/utils/formatters.ts) and the App       *)
(* component's state (src/App.tsx).                                        *)
(*                                                                         *)
(* Numbers.  A JavaScript number is modelled as a fixed-point integer:     *)
(*   - rates, factors and percentages carry RateScale (10^-6 resolution),  *)
(*   - currency amounts carry MoneyScale (a tenth of a rupee),             *)
(*   - ages and year counts are plain integers.                            *)
(* Every multiplication and division rounds (towards zero) to that         *)
(* resolution, as a floating-point operation rounds to its precision.      *)
(* Products are formed by MulDivQR so that no intermediate value leaves    *)
(* the 32-bit range of the model checker.  Values are finite: overflow to  *)
(* Infinity (beyond 1.8e308) is outside the model.                         *)
(***************************************************************************)
EXTENDS Integers, Sequences, FiniteSets, TLC

VARIABLES
  state,        \* App: the CalculatorState held by useState; the argument of a call
  result,       \* App: the memoised CalculationResult; the value a call returns
  isAiLoading,  \* App: useState(false)
  aiAdvice,     \* App: useState<string | null>(null)
  pc,           \* fetchAiAdvice: "idle" or "awaiting"; a call: "call" or "return"
  request,      \* the promise of generateContent: none, pending, fulfilled, rejected
  apiKey,       \* whether process.env.API_KEY is set
  alerted,      \* whether alert() has been shown
  uncaught,     \* whether an error has left fetchAiAdvice
  updates       \* the number of handleUpdate calls so far

vars == <<state, result, isAiLoading, aiAdvice, pc, request, apiKey, alerted, uncaught,
          updates>>

---------------------------------------------------------------------------
(* Number representation *)

RateScale == 10^6

MoneyScale == 10^1

Abs(x) == IF x < 0 THEN -x ELSE x

Sgn(x) == IF x < 0 THEN -1 ELSE 1

Max(a, b) == IF a >= b THEN a ELSE b

Min(a, b) == IF a <= b THEN a ELSE b

(* <<q, r>> with a * b = q * c + r and 0 <= r < c, for a, b >= 0 and c > 0; *)
(* b is taken three bits at a time and no intermediate value exceeds 16 * c *)
RECURSIVE MulDivQR(_, _, _)
MulDivQR(a, b, c) ==
  IF b = 0 THEN <<0, 0>>
  ELSE LET h == MulDivQR(a, b \div 8, c)
           d == b % 8
           s == 8 * h[2] + (a % c) * d
       IN  <<8 * h[1] + (a \div c) * d + (s \div c), s % c>>

(* x * r, r a rate: the product keeps the scale of x *)
FxMul(x, r) == Sgn(x) * Sgn(r) * MulDivQR(Abs(x), Abs(r), RateScale)[1]

(* x / y for x and y of the same scale: the quotient is a rate *)
FxDiv(x, y) == Sgn(x) * Sgn(y) * MulDivQR(Abs(x), RateScale, Abs(y))[1]

(* Math.pow(base, n) for an integer exponent n >= 0, by repeated squaring *)
RECURSIVE PowNat(_, _)
PowNat(base, n) ==
  IF n = 0 THEN RateScale
  ELSE LET h  == PowNat(base, n \div 2)
           sq == FxMul(h, h)
       IN  IF n % 2 = 1 THEN FxMul(sq, base) ELSE sq

(* Math.pow(base, n) for an integer exponent *)
Pow(base, n) == IF n >= 0 THEN PowNat(base, n) ELSE FxDiv(RateScale, PowNat(base, -n))

(* Math.round of a currency amount: the nearest whole rupee, halves upwards *)
Round(m) == (m + MoneyScale \div 2) \div MoneyScale

---------------------------------------------------------------------------
(* calculateRetirementMetrics *)

InflationRate(s) == FxDiv(s.assumedInflation, 100 * RateScale)

RoiRate(s) == s.postRetirementROI

(* mutation: the span is not clamped at zero *)
YearsToRetirementUnclamped(s) == s.retirementAge - s.currentAge

YearsToRetirement(s) == Max(0, s.retirementAge - s.currentAge)

(* mutation: the span is counted from the current age *)
YearsInRetirementFromNow(s) == Max(0, s.lifeExpectancy - s.currentAge)

YearsInRetirement(s) == Max(0, s.lifeExpectancy - s.retirementAge)

AdjustedBaseMonthly(s) == FxMul(s.currentMonthlyExpenses, s.lifestyleFactor)

MonthlyExpenseAtRetirement(s) ==
  FxMul(AdjustedBaseMonthly(s), Pow(RateScale + InflationRate(s), YearsToRetirement(s)))

AnnualExpenseAtRetirement(s) == MonthlyExpenseAtRetirement(s) * 12

(* mutation: the "- 1" is left out *)
RealRateGross(s) == FxDiv(RateScale + s.postRetirementROI, RateScale + InflationRate(s))

RealRate(s) == FxDiv(RateScale + RoiRate(s), RateScale + InflationRate(s)) - RateScale

(* Math.abs(realRate) < 0.0001 *)
NearZero(r) == Abs(r) < RateScale \div 10000

StraightLineCorpus(annual, n) == annual * n

AnnuityCorpus(annual, r, n) == FxMul(annual, FxDiv(RateScale - Pow(RateScale + r, -n), r))

RequiredCorpus(s) ==
  IF YearsInRetirement(s) > 0
  THEN IF NearZero(RealRate(s))
       THEN StraightLineCorpus(AnnualExpenseAtRetirement(s), YearsInRetirement(s))
       ELSE AnnuityCorpus(AnnualExpenseAtRetirement(s), RealRate(s), YearsInRetirement(s))
  ELSE 0

accumulationRate == RateScale \div 10

(* mutation: the savings grow at the selected post-retirement ROI *)
ProjectedAtSelectedRoi(s) ==
  FxMul(s.existingSavings, Pow(RateScale + s.postRetirementROI, YearsToRetirement(s)))

ProjectedExistingSavings(s) ==
  FxMul(s.existingSavings, Pow(RateScale + accumulationRate, YearsToRetirement(s)))

(* mutation: the difference is not clamped at zero *)
GapUnclamped(requiredCorpus, projectedExistingSavings) ==
  requiredCorpus - projectedExistingSavings

Gap(requiredCorpus, projectedExistingSavings) ==
  Max(0, requiredCorpus - projectedExistingSavings)

ChartPoint(age, currentBalance, currentAnnualExpense) ==
  [age |-> age,
   balance |-> Max(0, Round(currentBalance)),
   expenses |-> Round(currentAnnualExpense)]

(* mutation: the balance is not reset once the life expectancy is reached *)
NextBalanceKept(s, age, currentBalance, currentAnnualExpense) ==
  IF age < s.lifeExpectancy
  THEN currentBalance + FxMul(currentBalance, s.postRetirementROI) - currentAnnualExpense
  ELSE currentBalance

(* the balance carried into the next iteration of the loop *)
NextBalance(s, age, currentBalance, currentAnnualExpense) ==
  IF age < s.lifeExpectancy
  THEN currentBalance + FxMul(currentBalance, RoiRate(s)) - currentAnnualExpense
  ELSE 0

(* the annual expense carried into the next iteration of the loop *)
NextExpense(s, age, currentAnnualExpense) ==
  IF age < s.lifeExpectancy
  THEN FxMul(currentAnnualExpense, RateScale + InflationRate(s))
  ELSE currentAnnualExpense

(* mutation: the loop test is strict *)
LoopContinuesStrict(s, year) == year < Max(0, s.lifeExpectancy - s.retirementAge) + 5

LoopContinues(s, year) == year <= YearsInRetirement(s) + 5

(* mutation: the loop never breaks *)
LoopBreaksNever(s, age) == FALSE

LoopBreaks(s, age) == age > s.lifeExpectancy + 5

(* the loop's variables before its first iteration *)
LoopStart(s, requiredCorpus, annualExpenseAtRetirement) ==
  [year |-> 0,
   currentBalance |-> requiredCorpus,
   currentAnnualExpense |-> annualExpenseAtRetirement,
   chartData |-> <<>>,
   done |-> FALSE]

(* one iteration of the loop: the exit test, the break, the push and the update *)
LoopStep(s, x) ==
  IF x.done THEN x
  ELSE IF ~LoopContinues(s, x.year) THEN [x EXCEPT !.done = TRUE]
  ELSE LET age == s.retirementAge + x.year IN
       IF LoopBreaks(s, age) THEN [x EXCEPT !.done = TRUE]
       ELSE [year |-> x.year + 1,
             currentBalance |-> NextBalance(s, age, x.currentBalance, x.currentAnnualExpense),
             currentAnnualExpense |-> NextExpense(s, age, x.currentAnnualExpense),
             chartData |-> Append(x.chartData,
                                  ChartPoint(age, x.currentBalance, x.currentAnnualExpense)),
             done |-> FALSE]

(* eight iterations at a time, which keeps the evaluation of the loop shallow *)
LoopSteps(s, x) ==
  LoopStep(s, LoopStep(s, LoopStep(s, LoopStep(s,
    LoopStep(s, LoopStep(s, LoopStep(s, LoopStep(s, x))))))))

(* the loop run to its exit: the chartData it has pushed *)
RECURSIVE ChartLoop(_, _)
ChartLoop(s, x) == IF x.done THEN x.chartData ELSE ChartLoop(s, LoopSteps(s, x))

calculateRetirementMetrics(s) ==
  LET requiredCorpus == RequiredCorpus(s)
      projectedExistingSavings == ProjectedExistingSavings(s)
  IN  [yearsToRetirement |-> YearsToRetirement(s),
       yearsInRetirement |-> YearsInRetirement(s),
       monthlyExpenseAtRetirement |-> MonthlyExpenseAtRetirement(s),
       requiredCorpus |-> requiredCorpus,
       projectedExistingSavings |-> projectedExistingSavings,
       gap |-> Gap(requiredCorpus, projectedExistingSavings),
       chartData |-> ChartLoop(s, LoopStart(s, requiredCorpus, AnnualExpenseAtRetirement(s)))]

---------------------------------------------------------------------------
(* formatINR and formatCompactINR.  Their argument is any JavaScript number: *)
(* a finite amount (at MoneyScale), NaN, Infinity or -Infinity.  The string  *)
(* they return is modelled by its parts: the sign, the digits before and     *)
(* after the decimal point (or the infinity sign) and the unit suffix.       *)

Finite(v) == [kind |-> "finite", value |-> v]

NaN == [kind |-> "NaN", value |-> 0]

PosInfinity == [kind |-> "Infinity", value |-> 1]

NegInfinity == [kind |-> "Infinity", value |-> -1]

isNaN(amount) == amount.kind = "NaN"

(* amount >= threshold: false for NaN, Infinity is above and -Infinity below *)
(* every threshold                                                          *)
GreaterOrEqual(amount, threshold) ==
  CASE amount.kind = "finite" -> amount.value >= threshold
    [] amount.kind = "Infinity" -> amount.value > 0
    [] amount.kind = "NaN" -> FALSE

(* Math.abs *)
MathAbs(amount) == [amount EXCEPT !.value = Abs(amount.value)]

(* the string "₹0" *)
ZeroDisplay ==
  [negative |-> FALSE, infinite |-> FALSE, whole |-> 0, fractionDigits |-> 0,
   hundredths |-> 0, suffix |-> ""]

(* Intl.NumberFormat('en-IN', {currency: 'INR', maximumFractionDigits: 0})   *)
(* .format(amount): whole rupees, halves away from zero; "₹∞" for Infinity   *)
IntlFormat(amount) ==
  IF amount.kind = "finite"
  THEN [negative |-> amount.value < 0, infinite |-> FALSE,
        whole |-> (Abs(amount.value) + MoneyScale \div 2) \div MoneyScale,
        fractionDigits |-> 0, hundredths |-> 0, suffix |-> ""]
  ELSE [negative |-> amount.value < 0, infinite |-> TRUE,
        whole |-> 0, fractionDigits |-> 0, hundredths |-> 0, suffix |-> ""]

formatINR(amount) == IF isNaN(amount) THEN ZeroDisplay ELSE IntlFormat(amount)

(* `₹${(amount / unit).toFixed(2)} suffix` for an amount >= unit > 0;        *)
(* (Infinity).toFixed(2) is "Infinity"                                       *)
FixedDisplay(amount, unit, suffix) ==
  IF amount.kind = "finite"
  THEN LET h == (amount.value + (unit * MoneyScale) \div 200)
                   \div ((unit * MoneyScale) \div 100)
       IN  [negative |-> FALSE, infinite |-> FALSE, whole |-> h \div 100,
            fractionDigits |-> 2, hundredths |-> h % 100, suffix |-> suffix]
  ELSE [negative |-> FALSE, infinite |-> TRUE, whole |-> 0,
        fractionDigits |-> 0, hundredths |-> 0, suffix |-> suffix]

Crore == 10^7

Lakh == 10^5

formatCompactINR(amount) ==
  IF GreaterOrEqual(amount, Crore * MoneyScale) THEN FixedDisplay(amount, Crore, "Cr")
  ELSE IF GreaterOrEqual(amount, Lakh * MoneyScale) THEN FixedDisplay(amount, Lakh, "L")
  ELSE formatINR(amount)

---------------------------------------------------------------------------
(* The App component *)

Rupees(n) == n * MoneyScale

Percent(n) == n * RateScale

(* InvestmentProfile *)
CONSERVATIVE == (6 * RateScale) \div 100

BALANCED == (8 * RateScale) \div 100

AGGRESSIVE == (10 * RateScale) \div 100

(* LifestyleType *)
MAINTAIN == RateScale

UPGRADE == (3 * RateScale) \div 2

LUXURY == 2 * RateScale

INITIAL_STATE ==
  [currentAge |-> 45,
   retirementAge |-> 55,
   lifeExpectancy |-> 85,
   currentMonthlyExpenses |-> Rupees(100000),
   lifestyleFactor |-> MAINTAIN,
   existingSavings |-> Rupees(5000000),
   assumedInflation |-> Percent(6),
   postRetirementROI |-> BALANCED,
   specificGoals |-> ""]

Fields == DOMAIN INITIAL_STATE

(* the values the input widgets hand to handleUpdate, a few per field *)
FieldValues(field) ==
  CASE field = "currentAge" -> {45, 60}
    [] field = "retirementAge" -> {55, 75}
    [] field = "lifeExpectancy" -> {85, 70}
    [] field = "currentMonthlyExpenses" -> {Rupees(100000), 0}
    [] field = "lifestyleFactor" -> {MAINTAIN, UPGRADE}
    [] field = "existingSavings" -> {Rupees(5000000), 0}
    [] field = "assumedInflation" -> {Percent(6), Percent(4)}
    [] field = "postRetirementROI" -> {BALANCED, CONSERVATIVE}
    [] field = "specificGoals" -> {"", "World Tour"}

(* bound on the number of input changes in one run *)
MaxUpdates == 2

NoAdvice == [kind |-> "null"]

EmptyAdvice == [kind |-> "empty"]

FallbackAdvice ==
  [kind |-> "fallback", text |-> "Consult a financial advisor for a personalized strategy."]

ResponseAdvice(prompt) == [kind |-> "response", prompt |-> prompt]

(* !aiAdvice *)
Falsy(advice) == advice.kind \in {"null", "empty"}

NoRequest == [kind |-> "none"]

(* the prompt fetchAiAdvice builds from the state and result of its render *)
Prompt(st, res) ==
  [currentAge |-> st.currentAge,
   retirementAge |-> st.retirementAge,
   requiredCorpus |-> formatINR(Finite(res.requiredCorpus)),
   projectedExistingSavings |-> formatINR(Finite(res.projectedExistingSavings)),
   gap |-> formatINR(Finite(res.gap)),
   currentMonthlyExpenses |-> formatINR(Finite(st.currentMonthlyExpenses)),
   assumedInflation |-> st.assumedInflation,
   specificGoals |-> IF st.specificGoals = "" THEN "None specified" ELSE st.specificGoals]

(* mutation: the memo is never recomputed *)
useMemoStale(prevResult, nextState) == prevResult

(* useMemo(() => calculateRetirementMetrics(state), [state]) after setState *)
useMemoResult(prevResult, nextState) == calculateRetirementMetrics(nextState)

Init ==
  /\ state = INITIAL_STATE
  /\ result = calculateRetirementMetrics(INITIAL_STATE)
  /\ isAiLoading = FALSE
  /\ aiAdvice = NoAdvice
  /\ pc = "idle"
  /\ request = NoRequest
  /\ apiKey \in BOOLEAN
  /\ alerted = FALSE
  /\ uncaught = FALSE
  /\ updates = 0

handleUpdate(field, value) ==
  /\ pc \in {"idle", "awaiting"}
  /\ updates < MaxUpdates
  /\ \E nextState \in {[state EXCEPT ![field] = value]} :
       /\ state' = nextState
       /\ result' = useMemoResult(result, nextState)
  /\ aiAdvice' = NoAdvice
  /\ updates' = updates + 1
  /\ UNCHANGED <<isAiLoading, pc, request, apiKey, alerted, uncaught>>

(* mutation: the button is hidden only while advice is shown *)
ButtonShownWhileLoading == Falsy(aiAdvice)

(* the "Analyze with Gemini" button is rendered *)
ButtonShown == Falsy(aiAdvice) /\ ~isAiLoading

(* the shortfall / surplus card: its heading and the amount it shows *)
GapCard(res) ==
  [heading |-> IF res.gap > 0 THEN "Shortfall Gap" ELSE "Surplus Wealth",
   amount |-> formatCompactINR(MathAbs(Finite(res.gap)))]

(* fetchAiAdvice without an API key: alert and return *)
fetchAiAdviceNoKey ==
  /\ pc = "idle"
  /\ ButtonShown
  /\ ~apiKey
  /\ alerted' = TRUE
  /\ UNCHANGED <<state, result, isAiLoading, aiAdvice, pc, request, apiKey, uncaught, updates>>

(* fetchAiAdvice up to the await of generateContent *)
fetchAiAdviceStart ==
  /\ pc = "idle"
  /\ ButtonShown
  /\ apiKey
  /\ isAiLoading' = TRUE
  /\ request' = [kind |-> "pending", prompt |-> Prompt(state, result)]
  /\ pc' = "awaiting"
  /\ UNCHANGED <<state, result, aiAdvice, apiKey, alerted, uncaught, updates>>

(* mutation: the catch block only logs *)
CatchAdviceKept(advice) == advice

(* the advice set by the catch block *)
CatchAdvice(advice) == FallbackAdvice

(* whether the error leaves fetchAiAdvice: the catch block does not rethrow *)
CatchRethrows == FALSE

(* generateContent resolves with a text: setAiAdvice(response.text), finally *)
fetchAiAdviceResolved ==
  /\ pc = "awaiting"
  /\ request.kind = "pending"
  /\ \E empty \in BOOLEAN :
       /\ aiAdvice' = IF empty THEN EmptyAdvice ELSE ResponseAdvice(request.prompt)
       /\ request' = [kind |-> "fulfilled", prompt |-> request.prompt]
  /\ isAiLoading' = FALSE
  /\ pc' = "idle"
  /\ UNCHANGED <<state, result, apiKey, alerted, uncaught, updates>>

(* generateContent rejects: catch, finally *)
fetchAiAdviceRejected ==
  /\ pc = "awaiting"
  /\ request.kind = "pending"
  /\ request' = [kind |-> "rejected", prompt |-> request.prompt]
  /\ aiAdvice' = CatchAdvice(aiAdvice)
  /\ uncaught' = (uncaught \/ CatchRethrows)
  /\ isAiLoading' = FALSE
  /\ pc' = "idle"
  /\ UNCHANGED <<state, result, apiKey, alerted, updates>>

Next ==
  \/ \E field \in Fields : \E value \in FieldValues(field) : handleUpdate(field, value)
  \/ fetchAiAdviceNoKey
  \/ fetchAiAdviceStart
  \/ fetchAiAdviceResolved
  \/ fetchAiAdviceRejected

Spec == Init /\ [][Next]_vars

(* the collaborator eventually answers a pending request, with a text or an error *)
FairSpec == Spec /\ WF_vars(fetchAiAdviceResolved \/ fetchAiAdviceRejected)

---------------------------------------------------------------------------
(* calculateRetirementMetrics applied to arbitrary input records *)

(* the youngest age of the input records, and the width of the age range *)
BaseAge == 50

AgeSpan == 7

CalcInputs ==
  [currentAge : {BaseAge - 3, BaseAge, BaseAge + 2},
   retirementAge : BaseAge .. BaseAge + AgeSpan,
   lifeExpectancy : BaseAge .. BaseAge + AgeSpan,
   currentMonthlyExpenses : {0, Rupees(50000)},
   lifestyleFactor : {MAINTAIN, UPGRADE},
   existingSavings : {0, Rupees(5000000)},
   assumedInflation : {Percent(6), Percent(8)},
   postRetirementROI : {CONSERVATIVE, BALANCED},
   specificGoals : {""}]

NoResult ==
  [yearsToRetirement |-> 0, yearsInRetirement |-> 0, monthlyExpenseAtRetirement |-> 0,
   requiredCorpus |-> 0, projectedExistingSavings |-> 0, gap |-> 0, chartData |-> <<>>]

CalcInit ==
  /\ state \in CalcInputs
  /\ result = NoResult
  /\ pc = "call"
  /\ isAiLoading = FALSE
  /\ aiAdvice = NoAdvice
  /\ request = NoRequest
  /\ apiKey = FALSE
  /\ alerted = FALSE
  /\ uncaught = FALSE
  /\ updates = 0

CalcCall ==
  /\ pc = "call"
  /\ result' = calculateRetirementMetrics(state)
  /\ pc' = "return"
  /\ UNCHANGED <<state, isAiLoading, aiAdvice, request, apiKey, alerted, uncaught, updates>>

CalcNext == CalcCall

CalcSpec == CalcInit /\ [][CalcNext]_vars

---------------------------------------------------------------------------
(* formatINR and formatCompactINR applied to arbitrary numbers *)

(* the largest leading digit of the finite amounts *)
MaxMantissa == 9

FormatAmounts ==
  {Finite(k * 10^e) : k \in -MaxMantissa .. MaxMantissa, e \in 0 .. 8}
    \cup {NaN, PosInfinity, NegInfinity}

FormatInit ==
  /\ state \in FormatAmounts
  /\ result = ZeroDisplay
  /\ pc = "call"
  /\ isAiLoading = FALSE
  /\ aiAdvice = NoAdvice
  /\ request = NoRequest
  /\ apiKey = FALSE
  /\ alerted = FALSE
  /\ uncaught = FALSE
  /\ updates = 0

FormatCall ==
  /\ pc = "call"
  /\ result' = formatINR(state)
  /\ pc' = "formatINR"
  /\ UNCHANGED <<state, isAiLoading, aiAdvice, request, apiKey, alerted, uncaught, updates>>

FormatCompactCall ==
  /\ pc = "call"
  /\ result' = formatCompactINR(state)
  /\ pc' = "formatCompactINR"
  /\ UNCHANGED <<state, isAiLoading, aiAdvice, request, apiKey, alerted, uncaught, updates>>

FormatNext == FormatCall \/ FormatCompactCall

FormatSpec == FormatInit /\ [][FormatNext]_vars

---------------------------------------------------------------------------
(* Properties of calculateRetirementMetrics, checked under CalcSpec *)

Returned == pc = "return"

(* C1: gap = max(0, requiredCorpus - projectedExistingSavings): it is never *)
(* negative, and it is 0 whenever the projected savings cover the corpus.    *)
C1_GapIsClampedShortfall ==
  Returned =>
    /\ result.gap >= 0
    /\ result.projectedExistingSavings >= result.requiredCorpus => result.gap = 0
    /\ result.projectedExistingSavings < result.requiredCorpus =>
         result.gap = result.requiredCorpus - result.projectedExistingSavings

C1_Witness ==
  /\ Returned
  /\ result.requiredCorpus > 0
  /\ result.projectedExistingSavings > result.requiredCorpus
  /\ result.gap = 0

(* the length the chart is said to have *)
StatedLength(s, res) ==
  Min(res.yearsInRetirement + 6, s.lifeExpectancy + 5 - s.retirementAge + 1)

(* C2 as stated: for every record with integer ages, in whatever order, the  *)
(* number of chart points is min(yearsInRetirement + 6,                      *)
(* lifeExpectancy + 5 - retirementAge + 1).                                  *)
C2_LengthAsStated == Returned => Len(result.chartData) = StatedLength(state, result)

(* C2 amended: the number of chart points is that minimum when it is         *)
(* positive, and 0 otherwise (retirementAge more than 5 years past           *)
(* lifeExpectancy: the chart is empty).                                      *)
C2_LengthClampedAtZero ==
  Returned => Len(result.chartData) = Max(0, StatedLength(state, result))

C2_Witness ==
  /\ Returned
  /\ StatedLength(state, result) < 0
  /\ result.chartData = <<>>

(* C3: the chart starts at retirementAge, each point is one year after the   *)
(* one before it, and no point lies beyond lifeExpectancy + 5.               *)
C3_AgesConsecutiveFromRetirement ==
  Returned =>
    LET chart == result.chartData IN
    /\ chart # <<>> => chart[1].age = state.retirementAge
    /\ \A k \in 2 .. Len(chart) : chart[k].age = chart[k - 1].age + 1
    /\ \A k \in 1 .. Len(chart) : chart[k].age <= state.lifeExpectancy + 5

C3_Witness ==
  /\ Returned
  /\ state.retirementAge > state.lifeExpectancy
  /\ Len(result.chartData) >= 2
  /\ result.chartData[Len(result.chartData)].age = state.lifeExpectancy + 5

(* C4: every chart point past lifeExpectancy has balance 0, whatever balance *)
(* remained at lifeExpectancy.                                               *)
C4_BalanceZeroPastLifeExpectancy ==
  Returned =>
    \A k \in 1 .. Len(result.chartData) :
      result.chartData[k].age > state.lifeExpectancy => result.chartData[k].balance = 0

C4_Witness ==
  /\ Returned
  /\ \E k \in 1 .. Len(result.chartData) - 1 :
       /\ result.chartData[k].age = state.lifeExpectancy
       /\ result.chartData[k].balance > 0
       /\ result.chartData[k + 1].balance = 0

(* C5: with no years in retirement (lifeExpectancy <= retirementAge) the     *)
(* required corpus is 0, every chart point has balance 0 and no chart point  *)
(* is more than 5 years past retirementAge.                                  *)
C5_ZeroHorizon ==
  (Returned /\ state.lifeExpectancy <= state.retirementAge) =>
    /\ result.yearsInRetirement = 0
    /\ result.requiredCorpus = 0
    /\ \A k \in 1 .. Len(result.chartData) :
         /\ result.chartData[k].balance = 0
         /\ result.chartData[k].age <= state.retirementAge + 5

C5_Witness ==
  /\ Returned
  /\ state.lifeExpectancy <= state.retirementAge
  /\ state.lifeExpectancy > state.currentAge
  /\ Len(result.chartData) = 6
  /\ result.chartData[1].expenses > 0

(* C6: when postRetirementROI equals assumedInflation / 100 and there are    *)
(* years in retirement, requiredCorpus is exactly the annual expense at      *)
(* retirement times the years in retirement.                                 *)
C6_StraightLineAtZeroRealRate ==
  (/\ Returned
   /\ state.postRetirementROI = FxDiv(state.assumedInflation, 100 * RateScale)
   /\ result.yearsInRetirement > 0) =>
    result.requiredCorpus
      = (result.monthlyExpenseAtRetirement * 12) * result.yearsInRetirement

C6_Witness ==
  /\ Returned
  /\ state.postRetirementROI = FxDiv(state.assumedInflation, 100 * RateScale)
  /\ result.yearsInRetirement > 1
  /\ result.requiredCorpus > 0

(* C7: yearsToRetirement = max(0, retirementAge - currentAge) and            *)
(* yearsInRetirement = max(0, lifeExpectancy - retirementAge); neither is    *)
(* negative, whatever the order of the three ages.                           *)
C7_SpansClamped ==
  Returned =>
    /\ result.yearsToRetirement >= 0
    /\ result.yearsInRetirement >= 0
    /\ result.yearsToRetirement =
         (IF state.retirementAge > state.currentAge
          THEN state.retirementAge - state.currentAge ELSE 0)
    /\ result.yearsInRetirement =
         (IF state.lifeExpectancy > state.retirementAge
          THEN state.lifeExpectancy - state.retirementAge ELSE 0)

C7_Witness ==
  /\ Returned
  /\ state.currentAge > state.retirementAge
  /\ state.retirementAge > state.lifeExpectancy
  /\ result.yearsToRetirement = 0
  /\ result.yearsInRetirement = 0

(* C8: projectedExistingSavings is existingSavings * 1.10^yearsToRetirement  *)
(* and is the same for every record that differs from the input only in      *)
(* postRetirementROI.                                                        *)
C8_ProjectionIgnoresRoi ==
  Returned =>
    /\ result.projectedExistingSavings =
         FxMul(state.existingSavings, Pow((11 * RateScale) \div 10, result.yearsToRetirement))
    /\ \A roi \in {CONSERVATIVE, BALANCED, AGGRESSIVE} :
         calculateRetirementMetrics(
           [state EXCEPT !.postRetirementROI = roi]).projectedExistingSavings
           = result.projectedExistingSavings

C8_Witness ==
  /\ Returned
  /\ state.existingSavings > 0
  /\ result.yearsToRetirement > 0
  /\ result.projectedExistingSavings > state.existingSavings

---------------------------------------------------------------------------
(* Properties of the App component, checked under Spec *)

(* C9: after any sequence of input changes the result shown is               *)
(* calculateRetirementMetrics of the current input record alone.             *)
C9_ResultIsOfCurrentInputs == result = calculateRetirementMetrics(state)

C9_Witness ==
  /\ updates = MaxUpdates
  /\ state.retirementAge # INITIAL_STATE.retirementAge
  /\ state.assumedInflation # INITIAL_STATE.assumedInflation
  /\ result.requiredCorpus # calculateRetirementMetrics(INITIAL_STATE).requiredCorpus

(* C10: when generateContent rejects, the advice becomes the static          *)
(* fallback, the input record and the result are left as they were, and no   *)
(* error leaves fetchAiAdvice.                                               *)
C10_FailureFallsBack ==
  [][(request.kind = "pending" /\ request'.kind = "rejected") =>
       /\ aiAdvice' = FallbackAdvice
       /\ state' = state
       /\ result' = result
       /\ ~uncaught'
       /\ ~isAiLoading']_vars

C10_Witness ==
  /\ request.kind = "rejected"
  /\ aiAdvice = FallbackAdvice
  /\ state # INITIAL_STATE
  /\ ~uncaught

---------------------------------------------------------------------------
(* Properties of the formatters, checked under FormatSpec *)

(* C11: formatINR and formatCompactINR return the zero-value display for     *)
(* every non-finite amount: NaN, Infinity and -Infinity.                     *)
C11_NonFiniteShowsZero ==
  (pc \in {"formatINR", "formatCompactINR"} /\ state.kind # "finite") =>
    result = ZeroDisplay

---------------------------------------------------------------------------
(* Further properties of the App component *)

(* C12: when the projected savings exceed the required corpus the gap is 0   *)
(* and the shortfall / surplus card shows the surplus,                       *)
(* projectedExistingSavings - requiredCorpus.                                *)
C12_SurplusShown ==
  result.projectedExistingSavings > result.requiredCorpus =>
    /\ result.gap = 0
    /\ GapCard(result).amount =
         formatCompactINR(Finite(result.projectedExistingSavings - result.requiredCorpus))

(* C13: advice that came from the collaborator and is on display was built   *)
(* from the input record, and its result, that are now in state.             *)
C13_AdviceIsOfCurrentInputs ==
  aiAdvice.kind = "response" => aiAdvice.prompt = Prompt(state, result)

(* C14: once isAiLoading is true it eventually becomes false again, given    *)
(* that the collaborator answers; while it is true the button is not shown   *)
(* and no further request is started.                                        *)
C14_LoadingEndsAndExcludesRequests ==
  /\ isAiLoading ~> ~isAiLoading
  /\ [](isAiLoading => ~ButtonShown)
  /\ [][isAiLoading => ~(request'.kind = "pending" /\ request' # request)]_vars

C14_Witness ==
  /\ isAiLoading
  /\ request.kind = "pending"
  /\ aiAdvice = NoAdvice
  /\ updates > 0
  /\ request.prompt # Prompt(state, result)

====
